---- MODULE Spec2Model ----
(***************************************************************************)
(* The two TS4111 fixers, fix-process-env.py and fix-ts4111.py.  Each      *)
(* walks src/ and scripts/, reads every TypeScript file, applies an        *)
(* ordered list of regular-expression substitutions to the text and writes *)
(* the file back when the text changed.                                    *)
(*                                                                         *)
(* A text is a sequence of one-character strings, so the regular           *)
(* expressions are matched character by character, as re.sub does.         *)
(***************************************************************************)
EXTENDS Naturals, Sequences, FiniteSets

VARIABLES script,            \* which of the two scripts runs
          pc,                \* position of the run / of the rule pipeline
          original_content,  \* text as read (rule pipeline)
          content,           \* text being rewritten (rule pipeline)
          pass,              \* 1: first application, 2: applied to its own output
          tree,              \* the file tree: path -> [content, mode]
          tree0,             \* the file tree when the current run started
          ts_files,          \* the candidate list of the current run
          idx,               \* index of the next candidate to process
          fixed_count,       \* the changed-file counter
          out,               \* lines printed so far (stdout and stderr)
          written,           \* indices of candidates written back in this run
          run,               \* 1: first invocation, 2: invocation repeated
          first              \* what the first invocation left behind

vars == <<script, pc, original_content, content, pass,
          tree, tree0, ts_files, idx, fixed_count, out, written, run, first>>

ruleVars == <<original_content, content, pass>>
runVars == <<tree, tree0, ts_files, idx, fixed_count, out, written, run, first>>

Scripts == {"fix-process-env", "fix-ts4111"}

(***************************************************************************)
(* Character classes of the patterns.                                      *)
(***************************************************************************)
Upper == {"A","B","C","D","E","F","G","H","I","J","K","L","M",
          "N","O","P","Q","R","S","T","U","V","W","X","Y","Z"}
Lower == {"a","b","c","d","e","f","g","h","i","j","k","l","m",
          "n","o","p","q","r","s","t","u","v","w","x","y","z"}
Digit == {"0","1","2","3","4","5","6","7","8","9"}

\* \w of the re module, on the ASCII range.
WordChar == Upper \cup Lower \cup Digit \cup {"_"}

\* [A-Z_], the first character of the captured group.
NameStart == Upper \cup {"_"}

\* [A-Z0-9_], the further characters of the captured group.
NameRest == Upper \cup Digit \cup {"_"}

\* The literal part of the pattern, process\.env\.
ProcessEnvPrefix == <<"p","r","o","c","e","s","s",".","e","n","v",".">>

\* Whether the sequence lit occurs in t at position i.
OccursAt(t, i, lit) ==
    /\ i >= 1
    /\ i + Len(lit) - 1 <= Len(t)
    /\ \A k \in 1..Len(lit) : t[i + k - 1] = lit[k]

\* The pattern process\.env\.([A-Z_][A-Z0-9_]*) matches at position i.
ProcessEnvMatchAt(t, i) ==
    /\ OccursAt(t, i, ProcessEnvPrefix)
    /\ i + Len(ProcessEnvPrefix) <= Len(t)
    /\ t[i + Len(ProcessEnvPrefix)] \in NameStart

\* The greedy [A-Z0-9_]*: the index of the last character of the group that
\* holds position j.
RECURSIVE GroupEnd(_, _)
GroupEnd(t, j) ==
    IF j + 1 <= Len(t) /\ t[j + 1] \in NameRest THEN GroupEnd(t, j + 1) ELSE j

\* match.group(1) of the match at position i.
Group1(t, i) ==
    SubSeq(t, i + Len(ProcessEnvPrefix), GroupEnd(t, i + Len(ProcessEnvPrefix)))

\* fix-process-env.py: the replacement function, f"process.env['{prop_name}']".
replace_match(prop_name) ==
    <<"p","r","o","c","e","s","s",".","e","n","v","[","'">> \o prop_name \o <<"'","]">>

\* fix-ts4111.py: the replacement template r"process.env['\1']"; "\\1" is the
\* group reference.
replacement == <<"p","r","o","c","e","s","s",".","e","n","v","[","'","\\1","'","]">>

\* Template expansion of re.sub: every group reference becomes the group.
RECURSIVE Expand(_, _)
Expand(template, group) ==
    IF template = <<>> THEN <<>>
    ELSE (IF Head(template) = "\\1" THEN group ELSE <<Head(template)>>)
         \o Expand(Tail(template), group)

\* re.sub(pattern, replace_match, content) from position i on: the leftmost
\* match at or after i, the text before it copied, the scan resumed behind
\* the match.
RECURSIVE SubProcessEnvCall(_, _)
SubProcessEnvCall(t, i) ==
    LET M == {j \in i..Len(t) : ProcessEnvMatchAt(t, j)}
    IN  IF M = {} THEN SubSeq(t, i, Len(t))
        ELSE LET j == CHOOSE j \in M : \A m \in M : j <= m
             IN  SubSeq(t, i, j - 1) \o replace_match(Group1(t, j))
                 \o SubProcessEnvCall(t, GroupEnd(t, j + Len(ProcessEnvPrefix)) + 1)

\* re.sub(pattern, replacement, content) from position i on.
RECURSIVE SubProcessEnvTemplate(_, _)
SubProcessEnvTemplate(t, i) ==
    LET M == {j \in i..Len(t) : ProcessEnvMatchAt(t, j)}
    IN  IF M = {} THEN SubSeq(t, i, Len(t))
        ELSE LET j == CHOOSE j \in M : \A m \in M : j <= m
             IN  SubSeq(t, i, j - 1) \o Expand(replacement, Group1(t, j))
                 \o SubProcessEnvTemplate(t, GroupEnd(t, j + Len(ProcessEnvPrefix)) + 1)

\* fix_process_env of fix-process-env.py.
fix_process_env(t) == SubProcessEnvCall(t, 1)

\* fix_process_env of fix-ts4111.py.
fix_process_env_ts4111(t) == SubProcessEnvTemplate(t, 1)

(***************************************************************************)
(* The generic identifier rules of fix-ts4111.py, in list order.  A rule   *)
(* (r'\.id\b(?!\()', "['id']") is kept as its identifier and its           *)
(* replacement string.                                                     *)
(***************************************************************************)
patterns ==
  <<
     [id |-> <<"n","e","w">>,
      replacement |-> <<"[","'","n","e","w","'","]">>],
     [id |-> <<"r","e","a","d">>,
      replacement |-> <<"[","'","r","e","a","d","'","]">>],
     [id |-> <<"r","e","p","l","i","e","d">>,
      replacement |-> <<"[","'","r","e","p","l","i","e","d","'","]">>],
     [id |-> <<"a","r","c","h","i","v","e","d">>,
      replacement |-> <<"[","'","a","r","c","h","i","v","e","d","'","]">>],
     [id |-> <<"t","i","t","l","e">>,
      replacement |-> <<"[","'","t","i","t","l","e","'","]">>],
     [id |-> <<"d","e","s","c","r","i","p","t","i","o","n">>,
      replacement |-> <<"[","'","d","e","s","c","r","i","p","t","i","o","n","'","]">>],
     [id |-> <<"u","r","l">>,
      replacement |-> <<"[","'","u","r","l","'","]">>],
     [id |-> <<"a","l","t">>,
      replacement |-> <<"[","'","a","l","t","'","]">>],
     [id |-> <<"k","e","y","w","o","r","d","s">>,
      replacement |-> <<"[","'","k","e","y","w","o","r","d","s","'","]">>],
     [id |-> <<"i","s","A","d","m","i","n">>,
      replacement |-> <<"[","'","i","s","A","d","m","i","n","'","]">>],
     [id |-> <<"e","m","a","i","l">>,
      replacement |-> <<"[","'","e","m","a","i","l","'","]">>],
     [id |-> <<"p","a","s","s","w","o","r","d">>,
      replacement |-> <<"[","'","p","a","s","s","w","o","r","d","'","]">>],
     [id |-> <<"c","o","n","f","i","r","m","P","a","s","s","w","o","r","d">>,
      replacement |-> <<"[","'","c","o","n","f","i","r","m","P","a","s","s","w","o","r","d","'","]">>],
     [id |-> <<"n","a","m","e">>,
      replacement |-> <<"[","'","n","a","m","e","'","]">>],
     [id |-> <<"p","h","o","n","e">>,
      replacement |-> <<"[","'","p","h","o","n","e","'","]">>],
     [id |-> <<"l","o","c","a","l","e">>,
      replacement |-> <<"[","'","l","o","c","a","l","e","'","]">>],
     [id |-> <<"o","r","d","e","r","N","u","m","b","e","r">>,
      replacement |-> <<"[","'","o","r","d","e","r","N","u","m","b","e","r","'","]">>],
     [id |-> <<"f","i","r","s","t","N","a","m","e">>,
      replacement |-> <<"[","'","f","i","r","s","t","N","a","m","e","'","]">>],
     [id |-> <<"l","a","s","t","N","a","m","e">>,
      replacement |-> <<"[","'","l","a","s","t","N","a","m","e","'","]">>],
     [id |-> <<"i","t","e","m","C","o","u","n","t">>,
      replacement |-> <<"[","'","i","t","e","m","C","o","u","n","t","'","]">>],
     [id |-> <<"m","e","t","h","o","d">>,
      replacement |-> <<"[","'","m","e","t","h","o","d","'","]">>],
     [id |-> <<"s","t","a","t","u","s">>,
      replacement |-> <<"[","'","s","t","a","t","u","s","'","]">>],
     [id |-> <<"a","d","d","r","e","s","s">>,
      replacement |-> <<"[","'","a","d","d","r","e","s","s","'","]">>],
     [id |-> <<"p","r","e","f","e","r","r","e","d","D","a","t","e">>,
      replacement |-> <<"[","'","p","r","e","f","e","r","r","e","d","D","a","t","e","'","]">>],
     [id |-> <<"p","r","o","d","u","c","t","I","d">>,
      replacement |-> <<"[","'","p","r","o","d","u","c","t","I","d","'","]">>],
     [id |-> <<"o","r","d","e","r","I","d">>,
      replacement |-> <<"[","'","o","r","d","e","r","I","d","'","]">>],
     [id |-> <<"c","u","s","t","o","m","e","r","E","m","a","i","l">>,
      replacement |-> <<"[","'","c","u","s","t","o","m","e","r","E","m","a","i","l","'","]">>],
     [id |-> <<"o","p","t","i","o","n","s">>,
      replacement |-> <<"[","'","o","p","t","i","o","n","s","'","]">>],
     [id |-> <<"i","t","e","m","s">>,
      replacement |-> <<"[","'","i","t","e","m","s","'","]">>],
     [id |-> <<"c","h","o","i","c","e","s">>,
      replacement |-> <<"[","'","c","h","o","i","c","e","s","'","]">>],
     [id |-> <<"n","a","m","e","_","c","s">>,
      replacement |-> <<"[","'","n","a","m","e","_","c","s","'","]">>],
     [id |-> <<"n","a","m","e","_","e","n">>,
      replacement |-> <<"[","'","n","a","m","e","_","e","n","'","]">>],
     [id |-> <<"s","l","u","g">>,
      replacement |-> <<"[","'","s","l","u","g","'","]">>],
     [id |-> <<"b","a","s","e","_","p","r","i","c","e">>,
      replacement |-> <<"[","'","b","a","s","e","_","p","r","i","c","e","'","]">>],
     [id |-> <<"c","a","t","e","g","o","r","y","_","i","d">>,
      replacement |-> <<"[","'","c","a","t","e","g","o","r","y","_","i","d","'","]">>],
     [id |-> <<"s","t","o","c","k","_","q","u","a","n","t","i","t","y">>,
      replacement |-> <<"[","'","s","t","o","c","k","_","q","u","a","n","t","i","t","y","'","]">>],
     [id |-> <<"l","o","w","_","s","t","o","c","k","_","t","h","r","e","s","h","o","l","d">>,
      replacement |-> <<"[","'","l","o","w","_","s","t","o","c","k","_","t","h","r","e","s","h","o","l","d","'","]">>],
     [id |-> <<"f","a","l","l","b","a","c","k","A","p","p","l","i","e","d">>,
      replacement |-> <<"[","'","f","a","l","l","b","a","c","k","A","p","p","l","i","e","d","'","]">>],
     [id |-> <<"s","v","g","F","a","l","l","b","a","c","k","A","p","p","l","i","e","d">>,
      replacement |-> <<"[","'","s","v","g","F","a","l","l","b","a","c","k","A","p","p","l","i","e","d","'","]">>],
     [id |-> <<"f","a","l","l","b","a","c","k","V","a","l","u","e">>,
      replacement |-> <<"[","'","f","a","l","l","b","a","c","k","V","a","l","u","e","'","]">>],
     [id |-> <<"r","e","c","o","v","e","r","y","F","a","i","l","e","d">>,
      replacement |-> <<"[","'","r","e","c","o","v","e","r","y","F","a","i","l","e","d","'","]">>],
     [id |-> <<"q">>,
      replacement |-> <<"[","'","q","'","]">>],
     [id |-> <<"c","a","t","e","g","o","r","y">>,
      replacement |-> <<"[","'","c","a","t","e","g","o","r","y","'","]">>],
     [id |-> <<"s","o","r","t">>,
      replacement |-> <<"[","'","s","o","r","t","'","]">>],
     [id |-> <<"p","a","g","e">>,
      replacement |-> <<"[","'","p","a","g","e","'","]">>],
     [id |-> <<"u","n","k","n","o","w","n">>,
      replacement |-> <<"[","'","u","n","k","n","o","w","n","'","]">>]
  >>

\* \b after an identifier that ends at position e: the next character is no
\* word character (or there is none).
BoundaryAfter(t, e) == e = Len(t) \/ t[e + 1] \notin WordChar

\* (?!\(): the next character is not an opening parenthesis.
NotCallAfter(t, e) == e = Len(t) \/ t[e + 1] # "("

\* The pattern without its lookahead, \.id\b
RuleMatchAtNoLookahead(t, i, rule) ==
    /\ i <= Len(t) /\ t[i] = "."
    /\ OccursAt(t, i + 1, rule.id)
    /\ BoundaryAfter(t, i + Len(rule.id))

\* The pattern without its boundary, \.id(?!\()
RuleMatchAtNoBoundary(t, i, rule) ==
    /\ i <= Len(t) /\ t[i] = "."
    /\ OccursAt(t, i + 1, rule.id)
    /\ NotCallAfter(t, i + Len(rule.id))

\* The pattern with its dot not escaped, .id\b(?!\()
RuleMatchAtAnyChar(t, i, rule) ==
    /\ i <= Len(t)
    /\ OccursAt(t, i + 1, rule.id)
    /\ BoundaryAfter(t, i + Len(rule.id))
    /\ NotCallAfter(t, i + Len(rule.id))

\* The pattern \.id\b(?!\() matches at position i.
RuleMatchAt(t, i, rule) ==
    /\ i <= Len(t) /\ t[i] = "."
    /\ OccursAt(t, i + 1, rule.id)
    /\ BoundaryAfter(t, i + Len(rule.id))
    /\ NotCallAfter(t, i + Len(rule.id))

\* re.sub with count=1: only the leftmost match is replaced.
SubRuleFirstOnly(t, i, rule) ==
    LET M == {j \in i..Len(t) : RuleMatchAt(t, j, rule)}
    IN  IF M = {} THEN SubSeq(t, i, Len(t))
        ELSE LET j == CHOOSE j \in M : \A m \in M : j <= m
             IN  SubSeq(t, i, j - 1) \o rule.replacement
                 \o SubSeq(t, j + Len(rule.id) + 1, Len(t))

\* re.sub(pattern, replacement, content) of one generic rule, from position
\* i on: the scan finds the leftmost match at or after i, copies the text
\* before it, emits the replacement and goes on behind the match.
RECURSIVE SubRule(_, _, _)
SubRule(t, i, rule) ==
    LET M == {j \in i..Len(t) : RuleMatchAt(t, j, rule)}
    IN  IF M = {} THEN SubSeq(t, i, Len(t))
        ELSE LET j == CHOOSE j \in M : \A m \in M : j <= m
             IN  SubSeq(t, i, j - 1) \o rule.replacement
                 \o SubRule(t, j + Len(rule.id) + 1, rule)

\* The loop of fix_object_property_access over rules[lo..hi], in list order:
\* each rule scans the output of the one before.  The range is walked in two
\* halves, the first half's output computed before the second half reads it,
\* which is the same left-to-right composition as the loop.
RECURSIVE ApplyRange(_, _, _, _)
ApplyRange(t, rules, lo, hi) ==
    IF lo > hi THEN t
    ELSE IF lo = hi THEN SubRule(t, 1, rules[lo])
    ELSE LET mid == (lo + hi) \div 2
         IN  CHOOSE r \in {ApplyRange(u, rules, mid + 1, hi) :
                              u \in {ApplyRange(t, rules, lo, mid)}} : TRUE

\* The loop with every rule applied to the text as read (content =
\* re.sub(pattern, replacement, original)), the last one winning.
fix_object_property_access_unchained(t, rules) == SubRule(t, 1, rules[Len(rules)])

fix_object_property_access(t, rules) == ApplyRange(t, rules, 1, Len(rules))

\* What main does to the text of one file.
Transform(s, t) ==
    IF s = "fix-process-env" THEN fix_process_env(t)
    ELSE CHOOSE r \in {fix_object_property_access(u, patterns) :
                           u \in {fix_process_env_ts4111(t)}} : TRUE

(***************************************************************************)
(* The rule pipeline on one text: the body of the loop of main between     *)
(* read_text and the comparison, applied once and then once more to its    *)
(* own output.                                                             *)
(***************************************************************************)
MaxFrags == 3

\* Pieces the input texts are built from: the process.env prefix, the
\* characters the patterns tell apart, and two targeted identifiers.
Fragments ==
    { ProcessEnvPrefix,
      <<"A">>, <<"x">>, <<"_">>, <<"1">>, <<"(">>, <<" ">>, <<".">>,
      <<".","n","a","m","e">>,
      <<".","q">>,
      <<"_","c","s">> }

RECURSIVE TextsOf(_)
TextsOf(n) ==
    IF n = 0 THEN {<<>>}
    ELSE LET S == TextsOf(n - 1) IN S \cup {s \o f : s \in S, f \in Fragments}

Texts == TextsOf(MaxFrags)

NoTree == <<>>

RuleInit ==
    /\ script \in Scripts
    /\ original_content \in Texts
    /\ content = original_content
    /\ pass = 1
    /\ pc = "read"
    /\ tree = NoTree /\ tree0 = NoTree /\ ts_files = <<>> /\ idx = 0
    /\ fixed_count = 0 /\ out = <<>> /\ written = {} /\ run = 0 /\ first = NoTree

\* content = fix_process_env(content)
FixProcessEnv ==
    /\ pc = "read"
    /\ content' = (IF script = "fix-process-env" THEN fix_process_env(content)
                   ELSE fix_process_env_ts4111(content))
    /\ pc' = IF script = "fix-process-env" THEN "compare" ELSE "env_fixed"
    /\ UNCHANGED <<script, original_content, pass>>
    /\ UNCHANGED runVars

\* content = fix_object_property_access(content, patterns)
FixObjectPropertyAccess ==
    /\ pc = "env_fixed"
    /\ content' = fix_object_property_access(content, patterns)
    /\ pc' = "compare"
    /\ UNCHANGED <<script, original_content, pass>>
    /\ UNCHANGED runVars

\* The rule set is applied to its own output.
ApplyAgain ==
    /\ pc = "compare"
    /\ pass = 1
    /\ original_content' = content
    /\ pass' = 2
    /\ pc' = "read"
    /\ UNCHANGED <<script, content>>
    /\ UNCHANGED runVars

RuleNext == FixProcessEnv \/ FixObjectPropertyAccess \/ ApplyAgain

RuleSpec == RuleInit /\ [][RuleNext]_vars


(***************************************************************************)
(* Properties of the rule pipeline.                                        *)
(***************************************************************************)
\* The first application is over: content is the transformed text of
\* original_content.
Applied == pc = "compare" /\ pass = 1

\* C1: idempotence of the rule set.  When the complete ordered rule list of
\* either script has been applied to its own output, the text it returns is
\* the text it was given: transform(transform(t)) = transform(t).
C1_Idempotence == (pc = "compare" /\ pass = 2) => content = original_content

\* The second application has run on a text in which the first one rewrote
\* a process.env access and a generic access.
C1_Witness ==
    /\ pc = "compare" /\ pass = 2 /\ script = "fix-ts4111"
    /\ \E i \in 1..Len(content) : OccursAt(content, i, <<"e","n","v","[","'","A","'","]">>)
    /\ \E i \in 1..Len(content) : OccursAt(content, i, <<"[","'","q","'","]">>)

\* The access the property-name rule is meant for, as the claim words it:
\* process.env as a whole root (process is not the tail of a longer
\* identifier) and a property that is a whole identifier made of uppercase
\* letters, digits and underscores.
WholeEnvAccessAt(t, i) ==
    /\ OccursAt(t, i, ProcessEnvPrefix)
    /\ (i = 1 \/ t[i - 1] \notin WordChar)
    /\ i + Len(ProcessEnvPrefix) <= Len(t)
    /\ t[i + Len(ProcessEnvPrefix)] \in NameStart
    /\ LET e == GroupEnd(t, i + Len(ProcessEnvPrefix))
       IN  e = Len(t) \/ t[e + 1] \notin WordChar

RECURSIVE RewriteWholeEnvAccesses(_, _)
RewriteWholeEnvAccesses(t, i) ==
    LET M == {j \in i..Len(t) : WholeEnvAccessAt(t, j)}
    IN  IF M = {} THEN SubSeq(t, i, Len(t))
        ELSE LET j == CHOOSE j \in M : \A m \in M : j <= m
             IN  SubSeq(t, i, j - 1)
                 \o <<"p","r","o","c","e","s","s",".","e","n","v","[","'">>
                 \o Group1(t, j) \o <<"'","]">>
                 \o RewriteWholeEnvAccesses(t, GroupEnd(t, j + Len(ProcessEnvPrefix)) + 1)

\* C2: the property-name rule.  fix_process_env rewrites exactly the
\* accesses process.env.NAME whose NAME is a whole identifier of uppercase
\* letters, digits and underscores, into process.env['NAME']; a text whose
\* process.env. is followed by an identifier with another identifier
\* character, or whose process is the tail of a longer identifier, is
\* returned unchanged.
C2_PropertyNameRule ==
    (pass = 1 /\ pc = (IF script = "fix-process-env" THEN "compare" ELSE "env_fixed"))
        => content = RewriteWholeEnvAccesses(original_content, 1)

\* A method call on a targeted identifier, as the claim words it: .id
\* immediately followed by an opening parenthesis.
CallAt(t, i, id) ==
    /\ i + Len(id) + 1 <= Len(t)
    /\ t[i] = "."
    /\ OccursAt(t, i + 1, id)
    /\ t[i + Len(id) + 1] = "("

\* C3: call-site exclusion.  In fix-ts4111.py every occurrence of .id
\* followed by ( , id a targeted identifier, stands unchanged at its place in
\* the output after all rules have run: the output is the transformed text
\* before it, then .id, then the transformed text from the parenthesis on.
C3_CallSiteExclusion ==
    (Applied /\ script = "fix-ts4111") =>
        \A k \in 1..Len(patterns) : \A i \in 1..Len(original_content) :
            CallAt(original_content, i, patterns[k].id) =>
                content =
                    Transform(script, SubSeq(original_content, 1, i - 1))
                    \o <<".">> \o patterns[k].id
                    \o Transform(script, SubSeq(original_content,
                                                i + Len(patterns[k].id) + 1,
                                                Len(original_content)))

\* A call .name( stands in a text in which another access was rewritten.
C3_Witness ==
    /\ Applied /\ script = "fix-ts4111"
    /\ \E i \in 1..Len(original_content) :
           CallAt(original_content, i, <<"n","a","m","e">>)
    /\ \E i \in 1..Len(content) : OccursAt(content, i, <<".","n","a","m","e","(">>)
    /\ \E i \in 1..Len(content) : OccursAt(content, i, <<"[","'","q","'","]">>)

\* A targeted property read, as the claim words it: a literal dot, exactly
\* id up to an identifier boundary, not immediately followed by ( .
TargetedAccessAt(t, i, id) ==
    /\ i + Len(id) <= Len(t)
    /\ t[i] = "."
    /\ OccursAt(t, i + 1, id)
    /\ (i + Len(id) = Len(t) \/ t[i + Len(id) + 1] \notin (WordChar \cup {"("}))

\* C4: the generic identifier rewrite.  In fix-ts4111.py every targeted
\* property read .id is replaced by ['id'], the text before the dot and
\* after the identifier being rewritten as it would be on its own.
C4_GenericRewrite ==
    (Applied /\ script = "fix-ts4111") =>
        \A k \in 1..Len(patterns) : \A i \in 1..Len(original_content) :
            TargetedAccessAt(original_content, i, patterns[k].id) =>
                content =
                    Transform(script, SubSeq(original_content, 1, i - 1))
                    \o <<"[","'">> \o patterns[k].id \o <<"'","]">>
                    \o Transform(script, SubSeq(original_content,
                                                i + Len(patterns[k].id) + 1,
                                                Len(original_content)))

\* x.name has become x['name'].
C4_Witness ==
    /\ Applied /\ script = "fix-ts4111"
    /\ original_content = <<"x",".","n","a","m","e">>
    /\ content = <<"x","[","'","n","a","m","e","'","]">>

\* Every match of every rule in the original text replaced at once: what
\* each rule would do to its own occurrences were it the only rule.
AnyMatchAt(t, j) ==
    \/ ProcessEnvMatchAt(t, j)
    \/ \E k \in 1..Len(patterns) : RuleMatchAt(t, j, patterns[k])

RECURSIVE RewriteAllAtOnce(_, _)
RewriteAllAtOnce(t, i) ==
    LET M == {j \in i..Len(t) : AnyMatchAt(t, j)}
    IN  IF M = {} THEN SubSeq(t, i, Len(t))
        ELSE LET j == CHOOSE j \in M : \A m \in M : j <= m
             IN  IF ProcessEnvMatchAt(t, j)
                 THEN SubSeq(t, i, j - 1) \o Expand(replacement, Group1(t, j))
                      \o RewriteAllAtOnce(t, GroupEnd(t, j + Len(ProcessEnvPrefix)) + 1)
                 ELSE LET k == CHOOSE k \in 1..Len(patterns) :
                                   RuleMatchAt(t, j, patterns[k])
                      IN  SubSeq(t, i, j - 1) \o patterns[k].replacement
                          \o RewriteAllAtOnce(t, j + Len(patterns[k].id) + 1)

\* C5: rule interaction.  After the ordered rule list of fix-ts4111.py has
\* been applied once, no rule's pattern matches anywhere in the final text
\* (no process.env. before an uppercase letter or underscore, no targeted
\* property read), and the final text is the original with every
\* occurrence of every pattern rewritten as that rule alone would.
C5_RuleInteraction ==
    (Applied /\ script = "fix-ts4111") =>
        /\ \A i \in 1..Len(content) :
               ~(/\ OccursAt(content, i, ProcessEnvPrefix)
                 /\ i + Len(ProcessEnvPrefix) <= Len(content)
                 /\ content[i + Len(ProcessEnvPrefix)] \in NameStart)
        /\ \A k \in 1..Len(patterns) : \A i \in 1..Len(content) :
               ~TargetedAccessAt(content, i, patterns[k].id)
        /\ content = RewriteAllAtOnce(original_content, 1)

\* process.env.A.name has become process.env['A']['name'].
C5_Witness ==
    /\ Applied /\ script = "fix-ts4111"
    /\ original_content = ProcessEnvPrefix \o <<"A",".","n","a","m","e">>
    /\ content = <<"p","r","o","c","e","s","s",".","e","n","v","[","'","A","'","]",
                   "[","'","n","a","m","e","'","]">>

(***************************************************************************)
(* The run: main of either script on a file tree.                          *)
(***************************************************************************)
MaxFiles == 2

\* A path is its sequence of components, a component its characters.
src_path == <<"s","r","c">>
scripts_path == <<"s","c","r","i","p","t","s">>
next_config == << <<"n","e","x","t",".","c","o","n","f","i","g",".","t","s">> >>

\* The paths a tree may hold: TypeScript and other files under both roots,
\* one of them in a subdirectory, and the individually named file.
PathUniverse ==
    { <<src_path, <<"l","i","b">>, <<"a",".","t","s">> >>,
      <<src_path, <<"f",".","t","s">> >>,
      <<src_path, <<"b",".","t","s","x">> >>,
      <<src_path, <<"c",".","j","s">> >>,
      <<scripts_path, <<"d",".","t","s">> >>,
      <<scripts_path, <<"e",".","t","s","x">> >>,
      next_config }

\* File contents: a call the rules leave alone, a process.env access, and a
\* property read only fix-ts4111.py rewrites.
FileTexts ==
    { <<"x",".","q","(",")">>,
      ProcessEnvPrefix \o <<"A">>,
      <<"x",".","q">> }

\* "rw": readable and writable; "ro": read_text succeeds, write_text raises;
\* "unreadable": read_text raises (no permission, a directory, undecodable).
Modes == {"rw", "ro", "unreadable"}

Trees ==
    UNION { [S -> [content : FileTexts, mode : Modes]] :
            S \in {S \in SUBSET PathUniverse : Cardinality(S) <= MaxFiles} }

\* fnmatch of the name against "*" followed by suffix.
EndsWith(name, suffix) ==
    /\ Len(suffix) <= Len(name)
    /\ SubSeq(name, Len(name) - Len(suffix) + 1, Len(name)) = suffix

\* Path(root).rglob("*" + suffix): the files at any depth under root whose
\* name ends with suffix; nothing when root does not exist.
rglob(fs, root, suffix) ==
    {p \in DOMAIN fs : Len(p) >= 2 /\ p[1] = root /\ EndsWith(p[Len(p)], suffix)}

ts == <<".","t","s">>
tsx == <<".","t","s","x">>

\* The orders in which a directory walk may yield the set S.
Orderings(S) ==
    {s \in [1..Cardinality(S) -> S] : \A i, j \in 1..Cardinality(S) : i # j => s[i] # s[j]}

\* ts_files as main builds it: the three globs in this order, then
\* next.config.ts.
Discovered(fs) ==
    {a \o b \o c \o <<next_config>> :
        a \in Orderings(rglob(fs, src_path, ts)),
        b \in Orderings(rglob(fs, src_path, tsx)),
        c \in Orderings(rglob(fs, scripts_path, ts))}

\* read_text raises: the file does not exist or cannot be read.
ReadRaises(fs, p) == IF p \in DOMAIN fs THEN fs[p].mode = "unreadable" ELSE TRUE

\* write_text raises.
WriteRaises(fs, p) == fs[p].mode = "ro"

\* if content != original_content
ChangedAlways(new, original) == TRUE

Changed(new, original) == new # original

\* The stream the error line goes to.
ErrorStream == IF script = "fix-ts4111" THEN "stderr" ELSE "stdout"

FixedLine(p) == [kind |-> "Fixed", path |-> p, stream |-> "stdout"]
ErrorLine(p) == [kind |-> "Error", path |-> p, stream |-> ErrorStream]
TotalLine(n) == [kind |-> "Total", count |-> n, stream |-> "stdout"]

\* The texts a run may read: those the trees start with and those a first
\* run writes.
TextsRead == FileTexts \cup {Transform(s, t) : s \in Scripts, t \in FileTexts}

\* What main makes of each of them, computed once.
TransformTable == [s \in Scripts |-> [t \in TextsRead |-> Transform(s, t)]]

\* Transform(script, t), looked up.
Rewritten(t) == TransformTable[script][t]

NoRun == [tree |-> NoTree, out |-> <<>>]

Init ==
    /\ script \in Scripts
    /\ tree \in Trees
    /\ tree0 = tree
    /\ pc = "start"
    /\ ts_files = <<>>
    /\ idx = 1
    /\ fixed_count = 0
    /\ out = <<>>
    /\ written = {}
    /\ run = 1
    /\ first = NoRun
    /\ original_content = <<>> /\ content = <<>> /\ pass = 0

\* Lines 26-33: the candidate list is built and the counter set to 0.
Discover ==
    /\ pc = "start"
    /\ ts_files' \in Discovered(tree)
    /\ tree0' = tree
    /\ idx' = 1
    /\ fixed_count' = 0
    /\ out' = <<>>
    /\ written' = {}
    /\ pc' = "loop"
    /\ UNCHANGED <<script, tree, run, first>>
    /\ UNCHANGED ruleVars

\* The try around the whole loop instead of inside it: the first error ends
\* the loop.
ReadFailsAborts ==
    /\ pc = "loop" /\ idx <= Len(ts_files)
    /\ ReadRaises(tree, ts_files[idx])
    /\ out' = Append(out, ErrorLine(ts_files[idx]))
    /\ idx' = Len(ts_files) + 1
    /\ UNCHANGED <<script, pc, tree, tree0, ts_files, fixed_count, written, run, first>>
    /\ UNCHANGED ruleVars

\* One pass of the loop body in which read_text raises: the except clause
\* prints the error line.
ReadFails ==
    /\ pc = "loop" /\ idx <= Len(ts_files)
    /\ ReadRaises(tree, ts_files[idx])
    /\ out' = Append(out, ErrorLine(ts_files[idx]))
    /\ idx' = idx + 1
    /\ UNCHANGED <<script, pc, tree, tree0, ts_files, fixed_count, written, run, first>>
    /\ UNCHANGED ruleVars

\* One pass of the loop body in which the text comes back unchanged.
LeaveUnchanged ==
    /\ pc = "loop" /\ idx <= Len(ts_files)
    /\ ~ReadRaises(tree, ts_files[idx])
    /\ ~Changed(Rewritten(tree[ts_files[idx]].content), tree[ts_files[idx]].content)
    /\ idx' = idx + 1
    /\ UNCHANGED <<script, pc, tree, tree0, ts_files, fixed_count, out, written, run, first>>
    /\ UNCHANGED ruleVars

\* One pass of the loop body in which the text changed and is written back.
WriteBack ==
    /\ pc = "loop" /\ idx <= Len(ts_files)
    /\ ~ReadRaises(tree, ts_files[idx])
    /\ LET p == ts_files[idx]
           new == Rewritten(tree[p].content)
       IN  /\ Changed(new, tree[p].content)
           /\ ~WriteRaises(tree, p)
           /\ tree' = [tree EXCEPT ![p].content = new]
           /\ fixed_count' = fixed_count + 1
           /\ out' = Append(out, FixedLine(p))
    /\ written' = written \cup {idx}
    /\ idx' = idx + 1
    /\ UNCHANGED <<script, pc, tree0, ts_files, run, first>>
    /\ UNCHANGED ruleVars

\* The counter incremented before write_text is called.
WriteFailsCounted ==
    /\ pc = "loop" /\ idx <= Len(ts_files)
    /\ ~ReadRaises(tree, ts_files[idx])
    /\ LET p == ts_files[idx]
       IN  /\ Changed(Rewritten(tree[p].content), tree[p].content)
           /\ WriteRaises(tree, p)
           /\ out' = Append(out, ErrorLine(p))
    /\ fixed_count' = fixed_count + 1
    /\ idx' = idx + 1
    /\ UNCHANGED <<script, pc, tree, tree0, ts_files, written, run, first>>
    /\ UNCHANGED ruleVars

\* One pass of the loop body in which the text changed and write_text
\* raises: the counter and the "Fixed" line are skipped, the except clause
\* prints the error line.
WriteFails ==
    /\ pc = "loop" /\ idx <= Len(ts_files)
    /\ ~ReadRaises(tree, ts_files[idx])
    /\ LET p == ts_files[idx]
       IN  /\ Changed(Rewritten(tree[p].content), tree[p].content)
           /\ WriteRaises(tree, p)
           /\ out' = Append(out, ErrorLine(p))
    /\ idx' = idx + 1
    /\ UNCHANGED <<script, pc, tree, tree0, ts_files, fixed_count, written, run, first>>
    /\ UNCHANGED ruleVars

\* The loop is over: the total is printed.
PrintTotal ==
    /\ pc = "loop" /\ idx > Len(ts_files)
    /\ out' = Append(out, TotalLine(fixed_count))
    /\ pc' = "done"
    /\ UNCHANGED <<script, tree, tree0, ts_files, idx, fixed_count, written, run, first>>
    /\ UNCHANGED ruleVars

\* The same script is run once more on the tree the first run left.
RunAgain ==
    /\ pc = "done" /\ run = 1
    /\ first' = [tree |-> tree, out |-> out]
    /\ run' = 2
    /\ pc' = "start"
    /\ UNCHANGED <<script, tree, tree0, ts_files, idx, fixed_count, out, written>>
    /\ UNCHANGED ruleVars

Next ==
    \/ Discover
    \/ ReadFails
    \/ LeaveUnchanged
    \/ WriteBack
    \/ WriteFails
    \/ PrintTotal
    \/ RunAgain

\* The script is one sequential process: it keeps taking its next step.
Spec == Init /\ [][Next]_vars /\ WF_vars(Next)

(***************************************************************************)
(* Properties of the run.                                                  *)
(***************************************************************************)
\* The candidates the loop is done with.
Processed == 1..(idx - 1)

HasLine(l) == \E k \in 1..Len(out) : out[k] = l

\* The text of candidate i as the run found it.
TextRead(i) == tree0[ts_files[i]].content

\* Candidate i could be read.
WasRead(i) ==
    ts_files[i] \in DOMAIN tree0 /\ tree0[ts_files[i]].mode # "unreadable"

\* The pattern of the property-name rule occurs at position i.
EnvPatternAt(t, i) ==
    /\ OccursAt(t, i, ProcessEnvPrefix)
    /\ i + Len(ProcessEnvPrefix) <= Len(t)
    /\ t[i + Len(ProcessEnvPrefix)] \in NameStart

\* No pattern of script s occurs in t.
NoTargetedPattern(s, t) ==
    /\ \A i \in 1..Len(t) : ~EnvPatternAt(t, i)
    /\ s = "fix-ts4111" =>
           \A k \in 1..Len(patterns) : \A i \in 1..Len(t) :
               ~TargetedAccessAt(t, i, patterns[k].id)

\* The same, computed once for the texts a run may read.
PatternFree == [s \in Scripts |-> {t \in TextsRead : NoTargetedPattern(s, t)}]

NoPattern(i) == TextRead(i) \in PatternFree[script]

\* C6: identity on no-match and no needless write.  A candidate whose text
\* holds none of the targeted patterns is transformed to the same text and
\* left untouched: not written, no "Fixed" line, not counted; and a file is
\* written only when its transformed text differs from the text read.
C6_IdentityOnNoMatch ==
    /\ \A i \in Processed :
           (WasRead(i) /\ NoPattern(i)) =>
               /\ Rewritten(TextRead(i)) = TextRead(i)
               /\ i \notin written
               /\ ~HasLine(FixedLine(ts_files[i]))
               /\ tree[ts_files[i]] = tree0[ts_files[i]]
    /\ fixed_count <=
           Cardinality({i \in Processed :
                           WasRead(i) /\ ~NoPattern(i)})
    /\ \A i \in written : Rewritten(TextRead(i)) # TextRead(i)
    /\ \A p \in DOMAIN tree :
           tree[p] # tree0[p] =>
               Rewritten(tree0[p].content) # tree0[p].content

\* fix-process-env.py has passed a file that reads x.q, and has rewritten
\* another.
C6_Witness ==
    /\ script = "fix-process-env" /\ pc = "done"
    /\ \E i \in Processed : WasRead(i) /\ TextRead(i) = <<"x",".","q">>
    /\ fixed_count = 1

\* Processing candidate i raises: the file is missing or unreadable, or its
\* text changes and it cannot be written.
Raises(i) ==
    \/ ReadRaises(tree0, ts_files[i])
    \/ /\ Rewritten(TextRead(i)) # TextRead(i)
       /\ tree0[ts_files[i]].mode = "ro"

\* What failure isolation says of a state of the run.
C7_Isolated ==
    /\ \A i \in Processed :
           IF Raises(i)
           THEN /\ HasLine(ErrorLine(ts_files[i]))
                /\ ts_files[i] \in DOMAIN tree => tree[ts_files[i]] = tree0[ts_files[i]]
           ELSE /\ ~HasLine(ErrorLine(ts_files[i]))
                /\ tree[ts_files[i]].content = Rewritten(TextRead(i))
                /\ HasLine(FixedLine(ts_files[i])) <=>
                       Rewritten(TextRead(i)) # TextRead(i)
    /\ pc = "done" =>
           /\ idx = Len(ts_files) + 1
           /\ out[Len(out)].kind = "Total"

\* C7: failure isolation.  An error raised while one candidate is read or
\* written is caught at that file and reported with its path; every other
\* candidate, before and after it, is read, transformed and written back if
\* changed as it would be without the failure; and every run that starts
\* reaches the final total line.
C7_FailureIsolation ==
    /\ []C7_Isolated
    /\ (pc = "start") ~> (pc = "done")

\* A file was fixed after one candidate failed and before another did.
C7_Witness ==
    /\ pc = "done"
    /\ Len(out) = 4
    /\ out[1].kind = "Error" /\ out[2].kind = "Fixed" /\ out[3].kind = "Error"

\* C8: discovery completeness.  The candidates are exactly the .ts and .tsx
\* files at any depth under src and under scripts, plus next.config.ts; a
\* file with another suffix is no candidate and is left as it was.
C8_DiscoveryCompleteness ==
    pc \in {"loop", "done"} =>
        /\ {ts_files[i] : i \in 1..Len(ts_files)} =
               {p \in DOMAIN tree0 :
                    /\ Len(p) >= 2
                    /\ p[1] \in {src_path, scripts_path}
                    /\ EndsWith(p[Len(p)], ts) \/ EndsWith(p[Len(p)], tsx)}
               \cup {next_config}
        /\ \A p \in DOMAIN tree :
               ~(EndsWith(p[Len(p)], ts) \/ EndsWith(p[Len(p)], tsx)) =>
                   tree[p] = tree0[p]

FixedLines == {k \in 1..Len(out) : out[k].kind = "Fixed"}

\* C9: the changed-file counter.  At every point of the run the counter is
\* the number of candidates processed so far that changed and were written
\* back, which is the number of "Fixed" lines printed; a candidate whose
\* processing raised is not among them; the total printed is that number;
\* and a step leaves the counter, adds 1 to it, or starts a run at 0.
C9_CounterState ==
    /\ fixed_count = Cardinality(written)
    /\ fixed_count = Cardinality(FixedLines)
    /\ fixed_count =
           Cardinality({i \in Processed :
                           /\ WasRead(i)
                           /\ Rewritten(TextRead(i)) # TextRead(i)
                           /\ tree[ts_files[i]].content = Rewritten(TextRead(i))})
    /\ \A i \in written : i \in Processed /\ ~Raises(i)
    /\ pc = "done" => out[Len(out)] = TotalLine(Cardinality(written))

C9_ChangedFileCounter ==
    /\ []C9_CounterState
    /\ [][\/ fixed_count' = fixed_count
          \/ fixed_count' = fixed_count + 1 /\ Len(out') = Len(out) + 1
                                            /\ out'[Len(out')].kind = "Fixed"
          \/ pc = "start" /\ fixed_count' = 0]_vars

\* A run ended with one file fixed and one write refused.
C9_Witness ==
    /\ pc = "done" /\ fixed_count = 1
    /\ \E i \in Processed : WasRead(i) /\ Raises(i)

\* C10: the re-run is a no-op.  After a run that ended without a file
\* error, the next run of the same script writes no file, prints no "Fixed"
\* line, reports 0 and leaves every file as the first run left it.
C10_RerunNoOp ==
    (run = 2 /\ pc \in {"loop", "done"} /\ \A k \in 1..Len(first.out) : first.out[k].kind # "Error") =>
        /\ written = {}
        /\ FixedLines = {}
        /\ tree = first.tree
        /\ pc = "done" => out[Len(out)] = TotalLine(0)

\* The second run has ended after a first run that fixed two files.
C10_Witness ==
    /\ run = 2 /\ pc = "done"
    /\ first.out[Len(first.out)] = TotalLine(2)
    /\ out[Len(out)] = TotalLine(0)
====
